---- MODULE Spec2Model ----
(***************************************************************************)
(* ArxivSummarizer: the fetch / filter / download pipeline of              *)
(* downloader.py and the summarisation retry loop of main.py.              *)
(*                                                                         *)
(* Strings are sequences of one-character strings, so that strip, lower,   *)
(* "in", startswith and split are computed character by character.         *)
(* A datetime is a number of ticks (TicksPerDay ticks a day) counted from  *)
(* 1 January 2025, 00:00.                                                  *)
(***************************************************************************)
EXTENDS Integers, Sequences, FiniteSets, Bags, TLC

VARIABLES
    entry,          \* which entry point runs: main.py's main or download_pdfs alone
    config,         \* the content of config/url.json
    offsets,        \* download_pdfs' offsets argument
    pc,             \* position of the main thread
    exc,            \* the exception that left download_pdfs ("none" when none did)
    base_url,       \* download_pdfs: base_url
    cutoff_date,    \* download_pdfs: cutoff_date
    total_downloaded, \* download_pdfs: total_downloaded
    k,              \* download_pdfs: position in offsets of the page in hand
    results,        \* process_page: results of the page in hand
    download_tasks, \* process_page: download_tasks
    submitted,      \* process_page: how many futures executor.submit has made
    started,        \* ThreadPoolExecutor: how many work items left its queue
    running,        \* bag of <<url, phase>>: download_pdf calls in progress
    done,           \* bag of BOOLEAN: finished futures as_completed has not yielded
    yielded,        \* how many futures as_completed has yielded
    download_count, \* process_page: download_count
    dir_exists,     \* whether output_dir exists
    files,          \* the file names in output_dir
    num_try,        \* main: num_try
    now0,           \* the value datetime.now() returned in download_pdfs
    page_requests,  \* listing pages requested so far: offset and outcome, in order
    calls,          \* bag of urls: download_pdf invocations of the page in hand
    page_true,      \* download_pdf calls of the page in hand that returned True
    page_counts,    \* per finished process_page: what it returned, how many
                    \* download_pdf calls returned True, were queued, were made
    fs0,            \* dir_exists and files as they were before the run
    llm_calls,      \* how many times process_pdfs_in_directory was invoked
    llm_on_empty,   \* whether it was ever invoked on an empty directory
    probe,          \* a result element handed to extract_pdf_url on its own
    probe_out       \* what extract_pdf_url returned for it

vars == <<entry, config, offsets, pc, exc, base_url, cutoff_date,
          total_downloaded, k, results, download_tasks, submitted, started,
          running, done, yielded, download_count, dir_exists, files, num_try,
          now0, page_requests, calls, page_true, page_counts, fs0, llm_calls,
          llm_on_empty, probe, probe_out>>

----------------------------------------------------------------------------
(* Characters and strings *)

UpperCase == <<"A","B","C","D","E","F","G","H","I","J","K","L","M",
               "N","O","P","Q","R","S","T","U","V","W","X","Y","Z">>

LowerCase == <<"a","b","c","d","e","f","g","h","i","j","k","l","m",
               "n","o","p","q","r","s","t","u","v","w","x","y","z">>

Whitespace == {" ", "\t", "\n"}

\* str.lower, one character
LowerChar(c) ==
    IF \E i \in 1..Len(UpperCase) : UpperCase[i] = c
    THEN LowerCase[CHOOSE i \in 1..Len(UpperCase) : UpperCase[i] = c]
    ELSE c

\* str.lower
Lower(s) == [i \in 1..Len(s) |-> LowerChar(s[i])]

\* str.startswith
StartsWith(s, pre) ==
    /\ Len(pre) <= Len(s)
    /\ SubSeq(s, 1, Len(pre)) = pre

\* sub in s
Contains(s, sub) ==
    \E i \in 1..(Len(s) - Len(sub) + 1) : SubSeq(s, i, i + Len(sub) - 1) = sub

\* str.strip
Strip(s) ==
    LET keep == {i \in 1..Len(s) : s[i] \notin Whitespace}
    IN  IF keep = {} THEN <<>>
        ELSE LET lo == CHOOSE i \in keep : \A j \in keep : i <= j
                 hi == CHOOSE i \in keep : \A j \in keep : j <= i
             IN  SubSeq(s, lo, hi)

\* s.split("/")[-1]
LastSegment(s) ==
    LET slashes == {i \in 1..Len(s) : s[i] = "/"}
    IN  IF slashes = {} THEN s
        ELSE LET last == CHOOSE i \in slashes : \A j \in slashes : j <= i
             IN  SubSeq(s, last + 1, Len(s))

----------------------------------------------------------------------------
(* Optional values: None, or a value that is present *)

NoUrl == [present |-> FALSE, href |-> <<>>]

SomeUrl(h) == [present |-> TRUE, href |-> h]

NoDate == [present |-> FALSE, ticks |-> 0]

SomeDate(t) == [present |-> TRUE, ticks |-> t]

----------------------------------------------------------------------------
(* Bounds of the model *)

\* ticks in a day: the resolution of datetime values
TicksPerDay == 2

\* a listing page holds at most MaxResults results
MaxResults == 2

\* a bulk listing page holds max_workers + 1 .. max_workers + MaxExtra results
MaxExtra == 1

(* Program constants *)

\* main: days = 7
days == 7

\* main: patience = 5
patience == 5

\* process_page: ThreadPoolExecutor(max_workers=16)
max_workers == 16

----------------------------------------------------------------------------
(* datetime *)

MonthNames == <<"January", "February", "March", "April", "May", "June", "July",
                "August", "September", "October", "November", "December">>

IsLeap(y) == (y % 4 = 0 /\ y % 100 # 0) \/ y % 400 = 0

DaysInMonth(m, y) ==
    IF m = 2 THEN (IF IsLeap(y) THEN 29 ELSE 28)
    ELSE IF m \in {4, 6, 9, 11} THEN 30 ELSE 31

RECURSIVE DaysBeforeMonth(_, _)
DaysBeforeMonth(m, y) ==
    IF m = 1 THEN 0 ELSE DaysBeforeMonth(m - 1, y) + DaysInMonth(m - 1, y)

RECURSIVE DaysBeforeYear(_)
\* days from 1 January 2025 to 1 January of year y (negative before 2025)
DaysBeforeYear(y) ==
    IF y = 2025 THEN 0
    ELSE IF y > 2025
    THEN DaysBeforeYear(y - 1) + (IF IsLeap(y - 1) THEN 366 ELSE 365)
    ELSE DaysBeforeYear(y + 1) - (IF IsLeap(y) THEN 366 ELSE 365)

\* datetime(y, m, d): midnight of that day
DateTicks(y, m, d) ==
    (DaysBeforeYear(y) + DaysBeforeMonth(m, y) + d - 1) * TicksPerDay

\* timedelta(days=n)
timedelta(n) == n * TicksPerDay

\* datetime.strptime(date_str, "%d %B, %Y"): NoDate stands for ValueError
strptime(day, month, year) ==
    IF /\ \E m \in 1..12 : MonthNames[m] = month
       /\ year >= 1
    THEN LET m == CHOOSE m \in 1..12 : MonthNames[m] = month
         IN  IF day >= 1 /\ day <= DaysInMonth(m, year)
             THEN SomeDate(DateTicks(year, m, day))
             ELSE NoDate
    ELSE NoDate

----------------------------------------------------------------------------
(* A search result element: the text of its p.is-size-7 paragraph, read as *)
(* the marker "Submitted", the day, the month word and the year that       *)
(* follow it, and the href of each of its anchors, in document order.      *)

NoParagraph == [p |-> FALSE, submitted |-> FALSE, day |-> 0, month |-> "", year |-> 0]

Paragraph(sub, d, m, y) == [p |-> TRUE, submitted |-> sub, day |-> d, month |-> m, year |-> y]

\* re.search(r"Submitted\s*(\d{1,2}\s+\w+,\s*\d{4})", date_text)
DatePatternMatches(t) ==
    /\ t.submitted
    /\ t.day \in 0..99
    /\ t.month # ""
    /\ t.year \in 0..9999

extract_submission_date(result) ==
    LET date_info == result.date_info
    IN  IF ~date_info.p THEN NoDate
        ELSE IF ~DatePatternMatches(date_info) THEN NoDate
        ELSE strptime(date_info.day, date_info.month, date_info.year)

ArxivRoot == <<"h","t","t","p","s",":","/","/","a","r","x","i","v",".","o","r","g">>

extract_pdf_url(result) ==
    LET hrefs == result.anchors
        hits == {i \in 1..Len(hrefs) : Contains(Lower(hrefs[i]), <<"p","d","f">>)}
    IN  IF hits = {} THEN NoUrl
        ELSE LET i == CHOOSE i \in hits : \A j \in hits : i <= j
                 href == hrefs[i]
             IN  IF ~StartsWith(href, <<"h","t","t","p">>)
                 THEN SomeUrl(ArxivRoot \o href)
                 ELSE SomeUrl(href)

----------------------------------------------------------------------------
(* Inputs: what the listing server may answer and what the files hold *)

\* hrefs of anchors
HrefAbs1 == <<"h","t","t","p","s",":","/","/","a","r","x","i","v",".","o","r","g","/","a","b","s","/","1">>

HrefAbs5 == <<"h","t","t","p","s",":","/","/","a","r","x","i","v",".","o","r","g","/","a","b","s","/","5">>

HrefPdf1 == <<"/","p","d","f","/","1">>

HrefPdf2Abs == <<"h","t","t","p","s",":","/","/","a","r","x","i","v",".","o","r","g","/","p","d","f","/","2">>

HrefPdf3 == <<"/","p","d","f","/","3">>

HrefPdf4 == <<"/","p","d","f","/","4">>

\* the result elements a listing page is made of, by name
ResultNames == {"recent", "edge", "old", "undated", "nolink"}

Result(name) ==
    CASE name = "recent" ->
            [date_info |-> Paragraph(TRUE, 9, "March", 2025),
             anchors |-> <<HrefAbs1, HrefPdf1>>]
      [] name = "edge" ->
            [date_info |-> Paragraph(TRUE, 3, "March", 2025),
             anchors |-> <<HrefPdf2Abs>>]
      [] name = "old" ->
            [date_info |-> Paragraph(TRUE, 1, "February", 2025),
             anchors |-> <<HrefPdf3>>]
      [] name = "undated" ->
            [date_info |-> NoParagraph,
             anchors |-> <<HrefPdf4>>]
      [] name = "nolink" ->
            [date_info |-> Paragraph(TRUE, 9, "March", 2025),
             anchors |-> <<HrefAbs5>>]

RECURSIVE SeqsUpTo(_, _)
\* the sequences over S of length at most n
SeqsUpTo(S, n) ==
    IF n = 0 THEN {<<>>}
    ELSE LET shorter == SeqsUpTo(S, n - 1)
         IN  shorter \cup {Append(q, x) : q \in shorter, x \in S}

\* the listing pages of the ordinary run: up to MaxResults results each
Pages == SeqsUpTo(ResultNames, MaxResults)

\* the listing pages of the bulk run: more recent results than the pool has workers
BulkPages ==
    {[i \in 1..n |-> "recent"] : n \in (max_workers + 1)..(max_workers + MaxExtra)}

\* config/url.json: whether it has the key "url", and its value
Configs ==
    {[has_url |-> FALSE, url |-> <<>>],
     [has_url |-> TRUE, url |-> <<>>],
     [has_url |-> TRUE, url |-> <<" ", "\n">>],
     [has_url |-> TRUE, url |-> <<" ","h","t","t","p","s",":","/","/","a","/","s","?","q"," ">>]}

GoodConfig ==
    CHOOSE cfg \in Configs : cfg.has_url /\ Strip(cfg.url) # <<>>

\* the offsets argument when download_pdfs is called directly
OffsetLists == {<<>>, <<50>>}

\* a file left in output_dir by an earlier run
Leftover == <<"0",".","p","d","f">>

\* output_dir before the run: absent, or holding a leftover file
InitialDirs ==
    {[exists |-> FALSE, names |-> {}],
     [exists |-> TRUE, names |-> {Leftover}]}

\* the values datetime.now() may return: 10 March 2025 at 00:00, or one tick later
NowChoices == {DateTicks(2025, 3, 10), DateTicks(2025, 3, 10) + 1}

----------------------------------------------------------------------------
(* download_pdfs *)

\* load_config without .strip()
load_config_unstripped(cfg) ==
    LET url == IF cfg.has_url THEN cfg.url ELSE <<>>
    IN  IF url = <<>> THEN NoUrl ELSE SomeUrl(url)

\* load_config: the url, or NoUrl for ValueError("URL not found in configuration.")
load_config(cfg) ==
    LET url == Strip(IF cfg.has_url THEN cfg.url ELSE <<>>)
    IN  IF url = <<>> THEN NoUrl ELSE SomeUrl(url)

\* the loop body with "submission_date <= cutoff_date" as its skip test
QueuesExclusive(result, cutoff) ==
    LET submission_date == extract_submission_date(result)
    IN  /\ submission_date.present
        /\ ~(submission_date.ticks <= cutoff)
        /\ extract_pdf_url(result).present

\* process_page's loop body: whether the result's pdf url is queued
Queues(result, cutoff) ==
    LET submission_date == extract_submission_date(result)
    IN  /\ submission_date.present
        /\ ~(submission_date.ticks < cutoff)
        /\ extract_pdf_url(result).present

RECURSIVE QueueTasks(_, _)
\* process_page's loop over results: download_tasks, in page order
QueueTasks(page, cutoff) ==
    IF page = <<>> THEN <<>>
    ELSE LET result == Result(Head(page))
             rest == QueueTasks(Tail(page), cutoff)
         IN  IF Queues(result, cutoff)
             THEN <<extract_pdf_url(result).href>> \o rest
             ELSE rest

\* download_pdf: the file name
Filename(pdf_url) == LastSegment(pdf_url) \o <<".", "p", "d", "f">>

\* the locals of process_page once it has returned
PageLocalsCleared ==
    /\ results' = <<>>
    /\ download_tasks' = <<>>
    /\ submitted' = 0
    /\ started' = 0
    /\ yielded' = 0
    /\ download_count' = 0
    /\ calls' = EmptyBag
    /\ page_true' = 0

\* base_url = load_config(config_path)
LoadConfig ==
    /\ pc = "load_config"
    /\ LET url == load_config(config)
       IN  IF url.present
           THEN /\ base_url' = url.href
                /\ pc' = "makedirs"
                /\ exc' = exc
           ELSE /\ base_url' = base_url
                /\ pc' = "raised"
                /\ exc' = "ValueError"
    /\ UNCHANGED <<entry, config, offsets, cutoff_date, total_downloaded, k,
                   results, download_tasks, submitted, started, running, done,
                   yielded, download_count, dir_exists, files, num_try, now0,
                   page_requests, calls, page_true, page_counts, fs0,
                   llm_calls, llm_on_empty, probe, probe_out>>

\* os.makedirs(output_dir, exist_ok=True); cutoff_date = now - timedelta(days)
MakeDirs ==
    /\ pc = "makedirs"
    /\ dir_exists' = TRUE
    /\ \E now \in NowChoices :
          /\ now0' = now
          /\ cutoff_date' = now - timedelta(days)
    /\ total_downloaded' = 0
    /\ k' = 1
    /\ pc' = "page"
    /\ UNCHANGED <<entry, config, offsets, exc, base_url, results,
                   download_tasks, submitted, started, running, done, yielded,
                   download_count, files, num_try, page_requests, calls,
                   page_true, page_counts, fs0, llm_calls, llm_on_empty,
                   probe, probe_out>>

\* a failed page fetch that is logged and skipped: the loop goes on
FetchFailsSkips ==
    /\ pc = "page"
    /\ k <= Len(offsets)
    /\ page_requests' = Append(page_requests, [offset |-> offsets[k], ok |-> FALSE])
    /\ page_counts' = Append(page_counts,
                             [returned |-> 0, true_calls |-> 0, queued |-> 0, called |-> 0])
    /\ k' = k + 1
    /\ UNCHANGED <<entry, config, offsets, pc, exc, base_url, cutoff_date,
                   total_downloaded, results, download_tasks, submitted,
                   started, running, done, yielded, download_count, dir_exists,
                   files, num_try, now0, calls, page_true, fs0,
                   llm_calls, llm_on_empty, probe, probe_out>>

\* process_page: requests.get(paginated_url) fails, or raise_for_status raises
FetchFails ==
    /\ pc = "page"
    /\ k <= Len(offsets)
    /\ page_requests' = Append(page_requests, [offset |-> offsets[k], ok |-> FALSE])
    /\ pc' = "raised"
    /\ exc' = "HTTPError"
    /\ UNCHANGED <<entry, config, offsets, base_url, cutoff_date,
                   total_downloaded, k, results, download_tasks, submitted,
                   started, running, done, yielded, download_count, dir_exists,
                   files, num_try, now0, calls, page_true, page_counts, fs0,
                   llm_calls, llm_on_empty, probe, probe_out>>

\* process_page up to the executor: the page is fetched and its results filtered;
\* with nothing queued it returns 0 at once
FetchPage(Served) ==
    /\ pc = "page"
    /\ k <= Len(offsets)
    /\ page_requests' = Append(page_requests, [offset |-> offsets[k], ok |-> TRUE])
    /\ \E page \in Served :
          LET tasks == QueueTasks(page, cutoff_date)
          IN  IF tasks # <<>>
              THEN /\ results' = page
                   /\ download_tasks' = tasks
                   /\ pc' = "submit"
                   /\ UNCHANGED <<total_downloaded, k, page_counts, submitted,
                                  started, yielded, download_count, calls,
                                  page_true>>
              ELSE /\ PageLocalsCleared
                   /\ total_downloaded' = total_downloaded + 0
                   /\ page_counts' = Append(page_counts,
                                            [returned |-> 0, true_calls |-> 0,
                                             queued |-> 0, called |-> 0])
                   /\ k' = k + 1
                   /\ pc' = "page"
    /\ UNCHANGED <<entry, config, offsets, exc, base_url, cutoff_date, running,
                   done, dir_exists, files, num_try, now0, fs0, llm_calls,
                   llm_on_empty, probe, probe_out>>

\* executor.submit(download_pdf, url, output_dir), one url of download_tasks
Submit ==
    /\ pc = "submit"
    /\ submitted' = submitted + 1
    /\ pc' = IF submitted + 1 = Len(download_tasks) THEN "as_completed" ELSE "submit"
    /\ UNCHANGED <<entry, config, offsets, exc, base_url, cutoff_date,
                   total_downloaded, k, results, download_tasks, started,
                   running, done, yielded, download_count, dir_exists, files,
                   num_try, now0, page_requests, calls, page_true, page_counts,
                   fs0, llm_calls, llm_on_empty, probe, probe_out>>

\* a pool that starts one thread more than max_workers
WorkerFreeOneMore == BagCardinality(running) <= max_workers

\* whether a worker thread of the pool is free to take a work item
WorkerFree == BagCardinality(running) < max_workers

\* a worker thread takes the next work item of the queue and calls download_pdf
StartDownload ==
    /\ started < submitted
    /\ WorkerFree
    /\ LET url == download_tasks[started + 1]
       IN  /\ running' = running (+) SetToBag({<<url, "get">>})
           /\ calls' = calls (+) SetToBag({url})
    /\ started' = started + 1
    /\ UNCHANGED <<entry, config, offsets, pc, exc, base_url, cutoff_date,
                   total_downloaded, k, results, download_tasks, submitted,
                   done, yielded, download_count, dir_exists, files, num_try,
                   now0, page_requests, page_true, page_counts, fs0,
                   llm_calls, llm_on_empty, probe, probe_out>>

\* the urls of the download_pdf calls that are at the given point
InPhase(phase) == {e[1] : e \in {r \in BagToSet(running) : r[2] = phase}}

\* download_pdf without its first try/except: the exception leaves the batch
GetFailsRaises ==
    \E url \in InPhase("get") :
    /\ BagIn(<<url, "get">>, running)
    /\ running' = running (-) SetToBag({<<url, "get">>})
    /\ pc' = "raised"
    /\ exc' = "RequestException"
    /\ UNCHANGED <<entry, config, offsets, base_url, cutoff_date,
                   total_downloaded, k, results, download_tasks, submitted,
                   started, done, yielded, download_count, dir_exists, files,
                   num_try, now0, page_requests, calls, page_true, page_counts,
                   fs0, llm_calls, llm_on_empty, probe, probe_out>>

\* download_pdf: requests.get or raise_for_status raises; it returns False
GetFails ==
    \E url \in InPhase("get") :
    /\ BagIn(<<url, "get">>, running)
    /\ running' = running (-) SetToBag({<<url, "get">>})
    /\ done' = [done EXCEPT ![FALSE] = @ + 1]
    /\ UNCHANGED <<entry, config, offsets, pc, exc, base_url, cutoff_date,
                   total_downloaded, k, results, download_tasks, submitted,
                   started, yielded, download_count, dir_exists, files,
                   num_try, now0, page_requests, calls, page_true, page_counts,
                   fs0, llm_calls, llm_on_empty, probe, probe_out>>

\* download_pdf: the response arrived; open(filepath, "wb") fails (it returns
\* False) or creates the file
OpenFile ==
    \E url \in InPhase("get") :
    /\ BagIn(<<url, "get">>, running)
    /\ \E opened \in BOOLEAN :
          IF opened
          THEN /\ running' = (running (-) SetToBag({<<url, "get">>}))
                                (+) SetToBag({<<url, "write">>})
               /\ files' = files \cup {Filename(url)}
               /\ done' = done
          ELSE /\ running' = running (-) SetToBag({<<url, "get">>})
               /\ files' = files
               /\ done' = [done EXCEPT ![FALSE] = @ + 1]
    /\ UNCHANGED <<entry, config, offsets, pc, exc, base_url, cutoff_date,
                   total_downloaded, k, results, download_tasks, submitted,
                   started, yielded, download_count, dir_exists, num_try,
                   now0, page_requests, calls, page_true, page_counts, fs0,
                   llm_calls, llm_on_empty, probe, probe_out>>

\* a worker that adds its own success to download_count
WriteFileCounts ==
    \E url \in InPhase("write") :
    /\ BagIn(<<url, "write">>, running)
    /\ running' = running (-) SetToBag({<<url, "write">>})
    /\ \E ok \in BOOLEAN :
          /\ done' = [done EXCEPT ![ok] = @ + 1]
          /\ page_true' = IF ok THEN page_true + 1 ELSE page_true
          /\ download_count' = IF ok THEN download_count + 1 ELSE download_count
    /\ UNCHANGED <<entry, config, offsets, pc, exc, base_url, cutoff_date,
                   total_downloaded, k, results, download_tasks, submitted,
                   started, yielded, dir_exists, files,
                   num_try, now0, page_requests, calls, page_counts, fs0,
                   llm_calls, llm_on_empty, probe, probe_out>>

\* download_pdf: f.write(content) ends; it returns True, or False when it raised
WriteFile ==
    \E url \in InPhase("write") :
    /\ BagIn(<<url, "write">>, running)
    /\ running' = running (-) SetToBag({<<url, "write">>})
    /\ \E ok \in BOOLEAN :
          /\ done' = [done EXCEPT ![ok] = @ + 1]
          /\ page_true' = IF ok THEN page_true + 1 ELSE page_true
    /\ UNCHANGED <<entry, config, offsets, pc, exc, base_url, cutoff_date,
                   total_downloaded, k, results, download_tasks, submitted,
                   started, yielded, download_count, dir_exists, files,
                   num_try, now0, page_requests, calls, page_counts, fs0,
                   llm_calls, llm_on_empty, probe, probe_out>>

\* download_count after as_completed yielded a future whose result is r
Counted(count, r) == IF r THEN count + 1 ELSE count

\* for future in as_completed(futures): if future.result(): download_count += 1
Collect ==
    /\ pc = "as_completed"
    /\ \E r \in BOOLEAN :
          /\ done[r] > 0
          /\ done' = [done EXCEPT ![r] = @ - 1]
          /\ download_count' = Counted(download_count, r)
    /\ yielded' = yielded + 1
    /\ UNCHANGED <<entry, config, offsets, pc, exc, base_url, cutoff_date,
                   total_downloaded, k, results, download_tasks, submitted,
                   started, running, dir_exists, files, num_try, now0,
                   page_requests, calls, page_true, page_counts, fs0,
                   llm_calls, llm_on_empty, probe, probe_out>>

\* process_page returning without waiting for the futures
ReturnPageEarly ==
    /\ pc = "as_completed"
    /\ total_downloaded' = total_downloaded + download_count
    /\ page_counts' = Append(page_counts,
                             [returned |-> download_count, true_calls |-> page_true,
                              queued |-> Len(download_tasks),
                              called |-> BagCardinality(calls)])
    /\ k' = k + 1
    /\ pc' = "page"
    /\ PageLocalsCleared
    /\ UNCHANGED <<entry, config, offsets, exc, base_url, cutoff_date, running,
                   done, dir_exists, files, num_try, now0, page_requests, fs0,
                   llm_calls, llm_on_empty, probe, probe_out>>

\* as_completed is exhausted: the executor shuts down, process_page returns
\* download_count and download_pdfs adds it to total_downloaded
ReturnPage ==
    /\ pc = "as_completed"
    /\ yielded = Len(download_tasks)
    /\ total_downloaded' = total_downloaded + download_count
    /\ page_counts' = Append(page_counts,
                             [returned |-> download_count, true_calls |-> page_true,
                              queued |-> Len(download_tasks),
                              called |-> BagCardinality(calls)])
    /\ k' = k + 1
    /\ pc' = "page"
    /\ PageLocalsCleared
    /\ UNCHANGED <<entry, config, offsets, exc, base_url, cutoff_date, running,
                   done, dir_exists, files, num_try, now0, page_requests, fs0,
                   llm_calls, llm_on_empty, probe, probe_out>>

\* the loop over offsets is over: download_pdfs returns total_downloaded
ReturnTotal ==
    /\ pc = "page"
    /\ k > Len(offsets)
    /\ pc' = IF entry = "main" THEN "read_api" ELSE "returned"
    /\ UNCHANGED <<entry, config, offsets, exc, base_url, cutoff_date,
                   total_downloaded, k, results, download_tasks, submitted,
                   started, running, done, yielded, download_count, dir_exists,
                   files, num_try, now0, page_requests, calls, page_true,
                   page_counts, fs0, llm_calls, llm_on_empty, probe, probe_out>>

----------------------------------------------------------------------------
(* main.py *)

\* main: the summary directory is made and config/api.txt is read (it may be
\* missing or empty, and main ends with that exception)
ReadApiKey ==
    /\ pc = "read_api"
    /\ \E readable \in BOOLEAN :
          IF readable
          THEN pc' = "loop_check" /\ exc' = exc
          ELSE pc' = "raised" /\ exc' = "OSError"
    /\ num_try' = 0
    /\ UNCHANGED <<entry, config, offsets, base_url, cutoff_date,
                   total_downloaded, k, results, download_tasks, submitted,
                   started, running, done, yielded, download_count, dir_exists,
                   files, now0, page_requests, calls, page_true, page_counts,
                   fs0, llm_calls, llm_on_empty, probe, probe_out>>

\* the loop test with "num_try <= patience"
LoopContinuesInclusive(listing, tries) == listing # {} /\ tries <= patience

\* while os.listdir(pdf_directory) and num_try < patience
LoopContinues(listing, tries) == listing # {} /\ tries < patience

\* the loop test of main and, when it passes, num_try += 1 and the call of
\* process_pdfs_in_directory
LoopCheck ==
    /\ pc = "loop_check"
    /\ IF LoopContinues(files, num_try)
       THEN /\ num_try' = num_try + 1
            /\ llm_calls' = llm_calls + 1
            /\ llm_on_empty' = (llm_on_empty \/ files = {})
            /\ pc' = "summarising"
       ELSE /\ pc' = "exit"
            /\ UNCHANGED <<num_try, llm_calls, llm_on_empty>>
    /\ UNCHANGED <<entry, config, offsets, exc, base_url, cutoff_date,
                   total_downloaded, k, results, download_tasks, submitted,
                   started, running, done, yielded, download_count, dir_exists,
                   files, now0, page_requests, calls, page_true, page_counts,
                   fs0, probe, probe_out>>

\* process_pdfs_in_directory: it summarises some of the pdfs of the directory
\* and moves those out of it
Summarise ==
    /\ pc = "summarising"
    /\ \E left \in SUBSET files : files' = left
    /\ pc' = "loop_check"
    /\ UNCHANGED <<entry, config, offsets, exc, base_url, cutoff_date,
                   total_downloaded, k, results, download_tasks, submitted,
                   started, running, done, yielded, download_count, dir_exists,
                   num_try, now0, page_requests, calls, page_true, page_counts,
                   fs0, llm_calls, llm_on_empty, probe, probe_out>>

----------------------------------------------------------------------------
(* extract_pdf_url on its own *)

HrefUpper == <<"/","P","D","F","/","2">>

HrefFtp == <<"f","t","p",":","/","/","a","/","p","d","f","/","1">>

HrefUpperScheme == <<"H","T","T","P","S",":","/","/","a","/","p","d","f","/","1">>

\* the hrefs of the anchors of a probed result ("" for an anchor without href)
ProbeHrefs == {<<>>, HrefAbs1, HrefPdf1, HrefPdf2Abs, HrefUpper, HrefFtp, HrefUpperScheme}

\* a probed result has at most MaxAnchors anchors
MaxAnchors == 2

NoProbe == [date_info |-> NoParagraph, anchors |-> <<>>]

ApplyExtract ==
    /\ pc = "probe"
    /\ probe_out' = extract_pdf_url(probe)
    /\ pc' = "probed"
    /\ UNCHANGED <<entry, config, offsets, exc, base_url, cutoff_date,
                   total_downloaded, k, results, download_tasks, submitted,
                   started, running, done, yielded, download_count, dir_exists,
                   files, num_try, now0, page_requests, calls, page_true,
                   page_counts, fs0, llm_calls, llm_on_empty, probe>>

----------------------------------------------------------------------------
(* Specifications *)

\* everything but the inputs, before the run
Blank ==
    /\ exc = "none"
    /\ base_url = <<>>
    /\ cutoff_date = 0
    /\ now0 = 0
    /\ total_downloaded = 0
    /\ k = 0
    /\ results = <<>>
    /\ download_tasks = <<>>
    /\ submitted = 0
    /\ started = 0
    /\ running = EmptyBag
    /\ done = [r \in BOOLEAN |-> 0]
    /\ yielded = 0
    /\ download_count = 0
    /\ num_try = 0
    /\ page_requests = <<>>
    /\ calls = EmptyBag
    /\ page_true = 0
    /\ page_counts = <<>>
    /\ llm_calls = 0
    /\ llm_on_empty = FALSE
    /\ probe_out = NoUrl

Init ==
    /\ \/ entry = "main" /\ offsets = <<0, 50>>
       \/ entry = "download_pdfs" /\ offsets \in OffsetLists
    /\ config \in Configs
    /\ fs0 \in InitialDirs
    /\ dir_exists = fs0.exists
    /\ files = fs0.names
    /\ pc = "load_config"
    /\ probe = NoProbe
    /\ Blank

Next ==
    \/ LoadConfig
    \/ MakeDirs
    \/ FetchFails
    \/ FetchPage(Pages)
    \/ Submit
    \/ StartDownload
    \/ GetFails
    \/ OpenFile
    \/ WriteFile
    \/ Collect
    \/ ReturnPage
    \/ ReturnTotal
    \/ ReadApiKey
    \/ LoopCheck
    \/ Summarise

Spec == Init /\ [][Next]_vars

\* download_pdfs(config_path, output_dir, 7, [50]) at the top of its loop, on a
\* listing whose page outnumbers the workers of the pool
InitPool ==
    /\ entry = "download_pdfs"
    /\ offsets = <<50>>
    /\ config = GoodConfig
    /\ fs0 = [exists |-> FALSE, names |-> {}]
    /\ dir_exists = TRUE
    /\ files = {}
    /\ pc = "page"
    /\ exc = "none"
    /\ base_url = load_config(GoodConfig).href
    /\ now0 = DateTicks(2025, 3, 10)
    /\ cutoff_date = now0 - timedelta(days)
    /\ total_downloaded = 0
    /\ k = 1
    /\ results = <<>>
    /\ download_tasks = <<>>
    /\ submitted = 0
    /\ started = 0
    /\ running = EmptyBag
    /\ done = [r \in BOOLEAN |-> 0]
    /\ yielded = 0
    /\ download_count = 0
    /\ num_try = 0
    /\ page_requests = <<>>
    /\ calls = EmptyBag
    /\ page_true = 0
    /\ page_counts = <<>>
    /\ llm_calls = 0
    /\ llm_on_empty = FALSE
    /\ probe = NoProbe
    /\ probe_out = NoUrl

NextPool ==
    \/ FetchFails
    \/ FetchPage(BulkPages)
    \/ Submit
    \/ StartDownload
    \/ GetFails
    \/ OpenFile
    \/ WriteFile
    \/ Collect
    \/ ReturnPage
    \/ ReturnTotal

SpecPool == InitPool /\ [][NextPool]_vars

\* every request gets its answer and every thread that can run does run
FairSpecPool == SpecPool /\ WF_vars(NextPool)

\* extract_pdf_url applied to one result element
InitProbe ==
    /\ entry = "extract_pdf_url"
    /\ offsets = <<>>
    /\ config = GoodConfig
    /\ fs0 = [exists |-> FALSE, names |-> {}]
    /\ dir_exists = fs0.exists
    /\ files = fs0.names
    /\ pc = "probe"
    /\ probe \in {[date_info |-> NoParagraph, anchors |-> a] :
                      a \in SeqsUpTo(ProbeHrefs, MaxAnchors)}
    /\ Blank

NextProbe == ApplyExtract

SpecProbe == InitProbe /\ [][NextProbe]_vars

----------------------------------------------------------------------------
(* Properties *)

\* the bag of the elements of a sequence
BagOfSeq(q) ==
    [x \in {q[i] : i \in 1..Len(q)} |-> Cardinality({i \in 1..Len(q) : q[i] = x})]

RECURSIVE SumReturned(_)
SumReturned(log) ==
    IF log = <<>> THEN 0 ELSE Head(log).returned + SumReturned(Tail(log))

InDownloadPhase == pc \in {"submit", "as_completed"}

NothingInFlight == running = EmptyBag /\ done[TRUE] = 0 /\ done[FALSE] = 0

\* C1: Whatever succeeds or fails among the download_pdf calls of a batch,
\* download_pdf is called exactly once per queued entry (never more often
\* than the entry occurs in download_tasks, and for every entry by the time
\* process_page returns), no failure leaves the batch as an exception (the
\* run is only ever left by load_config's, a page fetch's or main's own
\* exception, with no download begun or abandoned), and the value
\* process_page returns is the number of download_pdf calls that returned
\* True.
C1_FailuresIsolated ==
    /\ calls = BagOfSeq(SubSeq(download_tasks, 1, started))
    /\ (pc = "as_completed" /\ yielded = Len(download_tasks))
          => (calls = BagOfSeq(download_tasks) /\ NothingInFlight)
    /\ \A i \in 1..Len(page_counts) :
          /\ page_counts[i].called = page_counts[i].queued
          /\ page_counts[i].returned = page_counts[i].true_calls
    /\ pc = "raised"
          => /\ exc \in {"ValueError", "HTTPError", "OSError"}
             /\ download_tasks = <<>>
             /\ NothingInFlight

\* C1 witness: a batch of two entries ended with one call failed and one True
C1_Witness ==
    \E i \in 1..Len(page_counts) :
        /\ page_counts[i].queued = 2
        /\ page_counts[i].called = 2
        /\ page_counts[i].returned = 1

\* C2: When the listing-page fetch at position k of offsets fails, the
\* failure leaves download_pdfs as an exception (no total is returned), it is
\* the last listing page ever requested, and no download is started for that
\* position or a later one: only the k - 1 pages before it were processed.
C2_FetchFailureAborts ==
    \A i \in 1..Len(page_requests) :
        ~page_requests[i].ok
           => /\ i = Len(page_requests)
              /\ pc = "raised"
              /\ exc = "HTTPError"
              /\ k = i
              /\ Len(page_counts) = i - 1
              /\ download_tasks = <<>>
              /\ calls = EmptyBag
              /\ NothingInFlight

\* C2 witness: the fetch of the second page failed after the first page's
\* downloads
C2_Witness ==
    /\ pc = "raised"
    /\ Len(page_requests) = 2
    /\ ~page_requests[2].ok
    /\ page_counts[1].called >= 1

\* the cutoff of the run: now at the start of the run, minus days
RunCutoff == now0 - days * TicksPerDay

\* what the claim lets through: a date that is present and on or after the
\* cutoff, and a payload link
Admitted(name) ==
    LET r == Result(name)
    IN  /\ extract_submission_date(r).present
        /\ extract_submission_date(r).ticks >= RunCutoff
        /\ extract_pdf_url(r).present

\* C3: On every page of a run the urls handed to the pool are, in page order,
\* the payload urls of exactly the results whose submission date is present
\* and >= cutoff and that have a payload link, cutoff being the one value
\* now - days computed at the start of the run; so a result with no date or a
\* date before the cutoff is never downloaded, and one dated exactly at the
\* cutoff, with a link, is queued.
C3_CutoffFilter ==
    /\ pc \in {"page", "submit", "as_completed"} => cutoff_date = RunCutoff
    /\ InDownloadPhase =>
          LET kept == SelectSeq(results, Admitted)
          IN  /\ download_tasks =
                    [i \in 1..Len(kept) |-> extract_pdf_url(Result(kept[i])).href]
              /\ \A u \in BagToSet(calls) :
                    \E i \in 1..Len(kept) : u = extract_pdf_url(Result(kept[i])).href
    /\ ~InDownloadPhase => calls = EmptyBag

\* C3 witness: a page with a result dated exactly at the cutoff and an older
\* or undated one; the first is being downloaded
C3_Witness ==
    /\ pc = "as_completed"
    /\ \E i \in 1..Len(results) :
          /\ extract_submission_date(Result(results[i])).ticks = cutoff_date
          /\ extract_submission_date(Result(results[i])).present
          /\ BagIn(extract_pdf_url(Result(results[i])).href, calls)
    /\ \E i \in 1..Len(results) :
          \/ ~extract_submission_date(Result(results[i])).present
          \/ extract_submission_date(Result(results[i])).ticks < cutoff_date

\* the configuration has no url field, or its value is empty or whitespace
UrlMissing(cfg) ==
    \/ ~cfg.has_url
    \/ \A i \in 1..Len(cfg.url) : cfg.url[i] \in Whitespace

\* C4: With a configuration whose url field is missing, empty or whitespace,
\* download_pdfs ends with the configuration error and nothing else ever
\* happens: no HTTP request, no download counted, the output directory and
\* its files as they were before the run.
C4_ConfigErrorFirst ==
    UrlMissing(config)
       => /\ pc \in {"load_config", "raised"}
          /\ pc = "raised" => exc = "ValueError"
          /\ page_requests = <<>>
          /\ calls = EmptyBag
          /\ NothingInFlight
          /\ page_counts = <<>>
          /\ total_downloaded = 0
          /\ dir_exists = fs0.exists
          /\ files = fs0.names

\* C4 witness: a whitespace url, the error raised, the directory still absent
C4_Witness ==
    /\ config.has_url
    /\ config.url # <<>>
    /\ pc = "raised"
    /\ exc = "ValueError"
    /\ ~dir_exists

\* a letter, as a URL scheme is made of
IsLetter(c) ==
    \E i \in 1..Len(UpperCase) : c = UpperCase[i] \/ c = LowerCase[i]

\* an absolute URL: a scheme of letters, then ":"
IsAbsoluteUrl(href) ==
    \E i \in 2..Len(href) :
        /\ href[i] = ":"
        /\ \A j \in 1..(i - 1) : IsLetter(href[j])

\* the payload url as the claim has it
ClaimedPdfUrl(result) ==
    LET hrefs == result.anchors
        hits == {i \in 1..Len(hrefs) : Contains(Lower(hrefs[i]), <<"p","d","f">>)}
    IN  IF hits = {} THEN NoUrl
        ELSE LET href == hrefs[CHOOSE i \in hits : \A j \in hits : i <= j]
             IN  IF IsAbsoluteUrl(href) THEN SomeUrl(href)
                 ELSE SomeUrl(ArxivRoot \o href)

\* C5: extract_pdf_url returns the first anchor target that contains "pdf"
\* in any case, unchanged when it is an absolute URL and with
\* https://arxiv.org put before it otherwise, and None when no target
\* contains "pdf".
C5_PdfUrlResolved ==
    pc = "probed" => probe_out = ClaimedPdfUrl(probe)

\* the download_pdf calls that have their destination file open
Writers == {e \in BagToSet(running) : e[2] = "write"}

\* C6: Within a batch no two download_pdf calls running at the same time
\* have the same destination file open for writing.
C6_WritersOnDistinctFiles ==
    \A e \in Writers :
        /\ CopiesIn(e, running) = 1
        /\ \A f \in Writers : Filename(f[1]) = Filename(e[1]) => f = e

\* C7: No update of the success counter is lost and no two threads write it:
\* at every moment every download_pdf call that returned True is either
\* counted in download_count or a finished future not yet yielded, and
\* download_count changes only in a step of the main thread in its
\* as_completed loop: by one, for one future yielded with a True result, or
\* back to 0 when process_page returns.
C7_CounterLosesNoUpdate ==
    /\ [](download_count + done[TRUE] = page_true)
    /\ [][download_count' # download_count
            => /\ pc = "as_completed"
               /\ running' = running
               /\ \/ /\ download_count' = download_count + 1
                     /\ done'[TRUE] = done[TRUE] - 1
                     /\ yielded' = yielded + 1
                  \/ /\ pc' = "page"
                     /\ download_count' = 0
                     /\ Head(SubSeq(page_counts', Len(page_counts'), Len(page_counts'))).returned
                           = download_count]_vars

\* C7 witness: two downloads of a page succeeded; one is counted, the other
\* finished and waits to be yielded
C7_Witness ==
    /\ pc = "as_completed"
    /\ download_count = 1
    /\ done[TRUE] = 1
    /\ page_true = 2

\* C8: Offsets are processed in list order and one page at a time: the pages
\* requested are a prefix of offsets, a listing page is only fetched when no
\* download is queued, running or waiting to be yielded, the downloads in
\* flight are all of the page in hand, and total_downloaded is the sum of
\* what process_page returned for the pages finished so far.
C8_PagesInOrder ==
    /\ [i \in 1..Len(page_requests) |-> page_requests[i].offset]
          = SubSeq(offsets, 1, Len(page_requests))
    /\ InDownloadPhase => (Len(page_requests) = k /\ Len(page_counts) = k - 1)
    /\ pc = "page" => (Len(page_requests) = k - 1 /\ Len(page_counts) = k - 1)
    /\ ~InDownloadPhase => (NothingInFlight /\ started = 0 /\ download_tasks = <<>>)
    /\ \A e \in BagToSet(running) : \E i \in 1..started : download_tasks[i] = e[1]
    /\ BagCardinality(running) + done[TRUE] + done[FALSE] + yielded = started
    /\ started <= submitted
    /\ submitted <= Len(download_tasks)
    /\ total_downloaded = SumReturned(page_counts)

\* C8 witness: the second page's downloads run after the first page returned
\* a success
C8_Witness ==
    /\ k = 2
    /\ pc = "as_completed"
    /\ running # EmptyBag
    /\ page_counts[1].returned >= 1
    /\ total_downloaded >= 1

\* C9: At most 16 download_pdf calls run at any moment, however many urls
\* are queued, and every queued url is executed in the end: once the batch
\* is being submitted, the moment comes when every entry of download_tasks
\* has had its download_pdf call finished and yielded.
C9_PoolBounded ==
    /\ [](BagCardinality(running) <= 16)
    /\ (pc = "submit") ~> (/\ pc = "as_completed"
                           /\ yielded = Len(download_tasks)
                           /\ calls = BagOfSeq(download_tasks)
                           /\ Len(download_tasks) > 16)

\* C9 witness: 16 calls running and a queued work item waiting for a worker
C9_Witness ==
    /\ BagCardinality(running) = 16
    /\ submitted = Len(download_tasks)
    /\ started < submitted

\* C10: The loop of main ends: process_pdfs_in_directory is invoked at most 5
\* times, only when the directory has been found non-empty, and the loop is
\* left at the first test that finds the directory empty or 5 attempts made.
\* It ends because it never gets stuck (a test or a call in hand can always
\* take its step) and every turn of it raises num_try, which never passes 5.
C10_LoopBounded ==
    /\ [](/\ num_try <= 5
          /\ llm_calls = num_try
          /\ ~llm_on_empty
          /\ pc = "exit" => (files = {} \/ num_try = 5)
          /\ pc \in {"loop_check", "summarising"} => ENABLED Next)
    /\ [][pc = "loop_check"
            => IF files = {} \/ num_try >= 5
               THEN pc' = "exit" /\ llm_calls' = llm_calls
               ELSE /\ pc' = "summarising"
                    /\ llm_calls' = llm_calls + 1
                    /\ num_try' = num_try + 1]_vars
    /\ [][pc = "summarising" => pc' = "loop_check" /\ num_try' = num_try]_vars

\* C10 witness: the loop left after 5 attempts with pdfs still in the directory
C10_Witness ==
    /\ pc = "exit"
    /\ num_try = 5
    /\ llm_calls = 5
    /\ files # {}

====
